---------------------------- MODULE Spec2Model ----------------------------
(***************************************************************************)
(* A model of the DQN agent of src/dqn/agent.py: the replay memory and the *)
(* learning cadence of Agent.step, the TD target of Agent.learn, the soft  *)
(* target update, the epsilon-greedy policy of Agent.act and the control   *)
(* loops Agent.train and Agent.test.                                       *)
(*                                                                         *)
(* Numbers.  Floats are modelled in fixed point.  Network parameters,      *)
(* rewards and scores are integers.  gamma is cfg.gamma / GammaDen, tau is *)
(* tau / TauDen, epsilon and the draw of random.random() are k / EpsDen,   *)
(* eps_decay is eps_decay / DecayDen.  Non-finite floats are not modelled. *)
(*                                                                         *)
(* The value network (QNetwork) and the replay memory (ReplayBuffer) are   *)
(* imported by agent.py and are not part of its source: the network is a   *)
(* table of one parameter per (observation, action), an observation being  *)
(* an index below state_size, and the memory is a bounded FIFO.            *)
(***************************************************************************)
EXTENDS Integers, Sequences, FiniteSets, TLC

VARIABLES
    cfg,              \* the constructor's hyperparameters (self.buffer_size, ...)
    memory,           \* self.memory: the replay buffer's contents, oldest first
    t_step,           \* self.t_step
    qnetwork_local,   \* parameters of self.qnetwork_local
    qnetwork_target,  \* parameters of self.qnetwork_target
    optimizer,        \* self.optimizer: the parameters Adam holds moments for
    checkpoint,       \* the content of checkpoint_file, <<>> when never written
    pc,               \* where the running method is: "idle" between calls
    last_act,         \* the last act call: its arguments, branch and result
    last_learn,       \* the last learn call: its batch, gamma and TD targets
    last_soft,        \* the last soft_update call: its arguments and results
    hist,             \* every transition a caller handed to step, in order
    n_sample,         \* calls of self.memory.sample() so far
    n_learn,          \* calls of self.learn() so far
    n_soft,           \* calls of self.soft_update() so far
    n_step,           \* calls of self.step() so far
    n_save,           \* calls of self.save() so far
    n_act,            \* calls of self.act() by a caller so far
    n_interact,       \* calls of env.step() in the running train call
    args,             \* the arguments of the running train/test call
    i_episode,        \* train/test: the episode loop's variable
    t,                \* train: the step loop's variable
    eps,              \* train: epsilon
    eps_hist,         \* train: epsilon of each episode begun, then its updates
    state,            \* train/test: the current observation
    score,            \* train/test: the running episode's score
    scores,           \* train/test: scores
    scores_window,    \* train: deque(maxlen=100)
    moving_avgs,      \* train: moving_avgs, each mean kept as <<sum, count>>
    avg_scores,       \* test: avg_scores, each mean kept as <<sum, count>>
    entry             \* test: the agent's learning state when test was entered

agentVars == <<cfg, memory, t_step, qnetwork_local, qnetwork_target, optimizer,
               checkpoint>>
countVars == <<hist, n_sample, n_learn, n_soft, n_step, n_save, n_act>>
loopVars  == <<n_interact, args, i_episode, t, eps, eps_hist, state, score, scores,
               scores_window, moving_avgs, avg_scores, entry>>
lastVars  == <<last_act, last_learn, last_soft>>
vars      == <<agentVars, countVars, loopVars, lastVars, pc>>

----------------------------------------------------------------------------
(* Bounds of the model and fixed-point denominators.                       *)

MaxSteps    == 5    \* step calls explored when step is driven directly
MaxBuffer   == 3    \* largest buffer_size explored
MaxBatch    == 2    \* largest batch_size explored
MaxEvery    == 2    \* largest update_every explored
MaxCalls    == 2    \* learn/soft_update/act calls explored when driven directly
MaxEpisodes == 3    \* largest n_episodes / num_episodes explored
MaxT        == 2    \* largest max_t explored
MaxTestScore == 1   \* test: the largest episode score the environment pays
GammaDen    == 2    \* gamma is a multiple of 1/GammaDen
TauDen      == 2    \* tau is a multiple of 1/TauDen
EpsDen      == 4    \* epsilon and random.random() are multiples of 1/EpsDen
DecayDen    == 2    \* eps_decay is a multiple of 1/DecayDen

ParamVals   == {-1, 0, 1}    \* values a network parameter takes
Rewards     == {0, 1}        \* rewards when step / learn are driven directly

(* Program constants.                                                      *)
SolvedScore == 13     \* moving_avg >= 13.0
WindowLen   == 100    \* deque(maxlen=100)

----------------------------------------------------------------------------
(* Helpers.                                                                *)

Max2(a, b) == IF a >= b THEN a ELSE b

\* n/d rounded to the nearest integer (halves up), d > 0
RoundDiv(n, d) == (2 * n + d) \div (2 * d)

SumSeq(s) ==
    LET F[i \in 0..Len(s)] == IF i = 0 THEN 0 ELSE F[i - 1] + s[i]
    IN  F[Len(s)]

\* the last k elements of s (all of s when it is shorter)
LastN(s, k) == SubSeq(s, Max2(1, Len(s) - k + 1), Len(s))

States(c)  == 0..(c.state_size - 1)
Actions(c) == 0..(c.action_size - 1)
ParamSpace(c) == [States(c) -> [Actions(c) -> ParamVals]]


----------------------------------------------------------------------------
(* The replay memory (dqn.ReplayBuffer) and the value network (dqn.QNetwork).*)

NoCall == [call |-> "none"]

Experience(s, a, r, ns, d) ==
    [state |-> s, action |-> a, reward |-> r, next_state |-> ns, done |-> d]

\* ReplayBuffer.add: append, and at capacity evict the oldest
Add(mem, e) ==
    IF Len(mem) >= cfg.buffer_size THEN Tail(mem) \o <<e>> ELSE Append(mem, e)

\* sample() turns the done flags into numbers for the batched arithmetic
DoneToNum(d) == IF d THEN 1 ELSE 0

\* ReplayBuffer.sample: every batch of batch_size entries taken at distinct
\* positions of the memory, in any order: a batch may hold a transition as
\* often as the memory does, and no more
SampleSet(mem) ==
    LET k == cfg.batch_size
        vals == {mem[j] : j \in 1..Len(mem)}
        Count(f, n, v) == Cardinality({i \in 1..n : f[i] = v})
        picks == {b \in [1..k -> vals] :
                    \A v \in vals : Count(b, k, v) <= Count(mem, Len(mem), v)}
    IN  {[i \in 1..k |-> [b[i] EXCEPT !.done = DoneToNum(@)]] : b \in picks}

\* the network's output for an observation: one value per action
QValues(params, s) == params[s]

\* .max(1)[0]: the largest action value
MaxQ(q) == CHOOSE v \in {q[a] : a \in DOMAIN q} : \A a \in DOMAIN q : q[a] <= v

\* np.argmax: the first index of the largest value
ArgMax(q) ==
    CHOOSE a \in DOMAIN q :
        /\ \A b \in DOMAIN q : q[b] <= q[a]
        /\ \A b \in DOMAIN q : q[b] = q[a] => a <= b

----------------------------------------------------------------------------
(* Agent.soft_update and Agent.learn.                                      *)

\* a slip in line 125: the two weights exchanged
SoftParamSwapped(l, tg, tau) == RoundDiv((TauDen - tau) * l + tau * tg, TauDen)

\* tau*local_param + (1.0-tau)*target_param, tau in units of 1/TauDen
SoftParam(l, tg, tau) == RoundDiv(tau * l + (TauDen - tau) * tg, TauDen)

\* soft_update: every target parameter, paired with its local parameter
SoftUpdate(local, target, tau) ==
    [s \in DOMAIN target |->
        [a \in DOMAIN target[s] |-> SoftParam(local[s][a], target[s][a], tau)]]

\* a slip in line 100: the (1 - dones) factor left out
TDTargetNoMask(reward, gamma, q_next, done) == GammaDen * reward + gamma * q_next

\* rewards + (gamma * Q_targets_next * (1 - dones)), in units of 1/GammaDen
TDTarget(reward, gamma, q_next, done) ==
    GammaDen * reward + gamma * q_next * (1 - done)

\* learn, lines 95-100: Q_targets of a batch
QTargets(batch, gamma, target) ==
    [i \in DOMAIN batch |->
        TDTarget(batch[i].reward, gamma,
                 MaxQ(QValues(target, batch[i].next_state)), batch[i].done)]

\* the parameters the loss of a batch has a gradient for: Q(state, action)
Touched(batch) == {<<batch[i].state, batch[i].action>> : i \in DOMAIN batch}

\* optimizer.step(): the parameters Adam may leave local with.  With lr = 0
\* the step is zero.  Otherwise a parameter that has, or had in an earlier
\* call, a gradient moves by at most one unit, and the others stay.
OptimizerStep(local, moved) ==
    IF cfg.lr = 0 THEN {local}
    ELSE LET Moves(s, a) ==
                 IF <<s, a>> \in moved
                 THEN {v \in ParamVals : v - local[s][a] \in {-1, 0, 1}}
                 ELSE {local[s][a]}
         IN  {p \in [States(cfg) -> [Actions(cfg) -> ParamVals]] :
                 \A s \in States(cfg), a \in Actions(cfg) : p[s][a] \in Moves(s, a)}

\* soft_update as a step of the agent: target is rewritten, local is read
DoSoftUpdate(local, target, tau) ==
    /\ qnetwork_target' = SoftUpdate(local, target, tau)
    /\ n_soft' = n_soft + 1
    /\ last_soft' = [call |-> "soft_update", tau |-> tau,
                     local_in |-> local, target_in |-> target,
                     local_out |-> local,
                     target_out |-> SoftUpdate(local, target, tau)]

\* learn(experiences, gamma): TD targets from the target network, one
\* optimizer step on local, then soft_update(local, target, self.tau)
DoLearn(batch, gamma) ==
    \E newLocal \in OptimizerStep(qnetwork_local, optimizer \cup Touched(batch)) :
        /\ qnetwork_local' = newLocal
        /\ optimizer' = optimizer \cup Touched(batch)
        /\ n_learn' = n_learn + 1
        /\ last_learn' = [call |-> "learn", experiences |-> batch, gamma |-> gamma,
                          target |-> qnetwork_target,
                          Q_targets |-> QTargets(batch, gamma, qnetwork_target)]
        /\ DoSoftUpdate(newLocal, qnetwork_target, cfg.tau)

----------------------------------------------------------------------------
(* Agent.act.                                                              *)

\* random.random(): a float of [0, 1), 0.0 included, as a multiple of 1/EpsDen
Draws == 0..(EpsDen - 1)

\* line 83, the test that takes the greedy branch
Greedy(draw, e) == draw > e

\* lines 83-86: the actions act may return for a draw.  The local network
\* is evaluated (eval mode, no_grad) and put back in train mode, its
\* parameters untouched.
ActChoices(s, e, draw) ==
    IF Greedy(draw, e)
    THEN {ArgMax(QValues(qnetwork_local, s))}
    ELSE Actions(cfg)

\* act(state, eps), returning action a on the given draw
DoAct(s, e, draw, a) ==
    /\ a \in ActChoices(s, e, draw)
    /\ last_act' = [call |-> "act", state |-> s, eps |-> e, action |-> a,
                    branch |-> IF Greedy(draw, e) THEN "greedy" ELSE "random",
                    q |-> QValues(qnetwork_local, s)]

----------------------------------------------------------------------------
(* Agent.step.                                                             *)

\* a slip in line 58: next_state stored where state belongs, and back
StoreTransitionSwapped(mem, s, a, r, ns, d) == Add(mem, Experience(ns, a, r, s, d))

\* line 58: the transition goes into the memory as it was received
StoreTransition(mem, s, a, r, ns, d) == Add(mem, Experience(s, a, r, ns, d))

\* line 61
NextTStep(ts) == (ts + 1) % cfg.update_every

\* a slip in line 64: >= for >
ShouldLearnAtBatchSize(ts, mem) == ts = 0 /\ Len(mem) >= cfg.batch_size

\* lines 62-64: the counter wrapped and enough samples are in memory
ShouldLearn(ts, mem) == ts = 0 /\ Len(mem) > cfg.batch_size

\* step(state, action, reward, next_state, done), whole
DoStep(s, a, r, ns, d) ==
    /\ memory' = StoreTransition(memory, s, a, r, ns, d)
    /\ n_step' = n_step + 1
    /\ t_step' = NextTStep(t_step)
    /\ IF ShouldLearn(t_step', memory')
       THEN /\ n_sample' = n_sample + 1
            /\ \E batch \in SampleSet(memory') : DoLearn(batch, cfg.gamma)
       ELSE UNCHANGED <<n_sample, n_learn, n_soft, qnetwork_local,
                        qnetwork_target, optimizer, last_learn, last_soft>>

----------------------------------------------------------------------------
(* Agent.__init__.                                                         *)

Config(ss, as, bs, b, ue, g, tau, lr) ==
    [state_size |-> ss, action_size |-> as, buffer_size |-> bs, batch_size |-> b,
     update_every |-> ue, gamma |-> g, tau |-> tau, lr |-> lr]

ZeroParams(c) == [s \in States(c) |-> [a \in Actions(c) |-> 0]]

\* the state __init__ leaves: an empty memory, t_step = 0, two networks
InitAgent(c, local, target) ==
    /\ cfg = c
    /\ memory = <<>>
    /\ t_step = 0
    /\ qnetwork_local = local
    /\ qnetwork_target = target
    /\ optimizer = {}
    /\ checkpoint = <<>>
    /\ pc = "idle"
    /\ last_act = NoCall /\ last_learn = NoCall /\ last_soft = NoCall
    /\ hist = <<>>
    /\ n_sample = 0 /\ n_learn = 0 /\ n_soft = 0 /\ n_step = 0 /\ n_save = 0
    /\ n_act = 0
    /\ n_interact = 0
    /\ args = NoCall
    /\ i_episode = 0 /\ t = 0 /\ eps = 0 /\ eps_hist = <<>>
    /\ state = 0 /\ score = 0 /\ scores = <<>> /\ scores_window = <<>>
    /\ moving_avgs = <<>> /\ avg_scores = <<>>
    /\ entry = NoCall

----------------------------------------------------------------------------
(* Spec: step driven directly by a caller, for every small configuration.  *)

StepConfigs ==
    {Config(2, 1, bs, b, ue, GammaDen, 1, lr) :
        bs \in 1..MaxBuffer, b \in 1..MaxBatch, ue \in 1..MaxEvery, lr \in {0, 1}}

\* the transitions the caller hands to step
StepInputs == {Experience(0, 0, 0, 1, FALSE), Experience(1, 0, 1, 0, TRUE)}

Init == \E c \in StepConfigs : InitAgent(c, ZeroParams(c), ZeroParams(c))

StepCall ==
    /\ pc = "idle"
    /\ n_step < MaxSteps
    /\ \E e \in StepInputs :
          /\ DoStep(e.state, e.action, e.reward, e.next_state, e.done)
          /\ hist' = Append(hist, e)
    /\ UNCHANGED <<cfg, checkpoint, n_save, loopVars, last_act, n_act, pc>>

Next == StepCall

Spec == Init /\ [][Next]_vars

\* C1: every step call stores its transition and advances t_step to
\* (t_step + 1) mod update_every; it samples one batch and learns once when
\* t_step wrapped to 0 and the memory, after the add, holds more than
\* batch_size transitions, and neither samples nor learns otherwise.
C1_StepCadence ==
    [][n_step' = n_step + 1 =>
        LET trigger == t_step' = 0 /\ Len(memory') > cfg.batch_size
            k == IF trigger THEN 1 ELSE 0
        IN  /\ Len(hist') = Len(hist) + 1
            /\ memory'[Len(memory')] = hist'[Len(hist')]
            /\ t_step' = (t_step + 1) % cfg.update_every
            /\ n_sample' = n_sample + k
            /\ n_learn' = n_learn + k
            /\ trigger =>
                  /\ Len(last_learn'.experiences) = cfg.batch_size
                  /\ \A i \in 1..cfg.batch_size :
                        \E j \in 1..Len(memory') :
                            last_learn'.experiences[i] =
                                [memory'[j] EXCEPT !.done = DoneToNum(@)]
            /\ ~trigger => last_learn' = last_learn
    ]_vars

\* a wrap without learning (memory too small) and a later wrap with learning
C1_Witness ==
    /\ cfg.update_every = 2 /\ cfg.batch_size = 2 /\ cfg.buffer_size = 3
    /\ n_step = 4 /\ n_learn = 1 /\ n_sample = 1

\* C3: after n transitions went through step, the memory holds min(n,
\* buffer_size) transitions, never more than buffer_size, and they are the
\* most recently added ones in their order (the oldest was evicted).
C3_MostRecent ==
    /\ Len(hist) = n_step
    /\ Len(memory) = (IF n_step <= cfg.buffer_size THEN n_step ELSE cfg.buffer_size)
    /\ Len(memory) <= cfg.buffer_size
    /\ memory = LastN(hist, cfg.buffer_size)

\* two evictions happened from a memory of two different transitions
C3_Witness ==
    /\ cfg.buffer_size = 2 /\ n_step = 4
    /\ memory[1] # memory[2] /\ hist[1] # memory[1]

----------------------------------------------------------------------------
(* SpecScenario: the end-to-end scenario.  An agent built with             *)
(* state_size=4, action_size=2, buffer_size=100, batch_size=8,             *)
(* update_every=4 is fed 50 transitions with reward 1 and done false.      *)

Scenario ==
    [config |-> Config(4, 2, 100, 8, 4, GammaDen, 1, 1),
     transitions |-> 50,
     experience |-> Experience(0, 0, 1, 1, FALSE)]

InitScenario ==
    InitAgent(Scenario.config, ZeroParams(Scenario.config), ZeroParams(Scenario.config))

ScenarioStep ==
    /\ pc = "idle"
    /\ n_step < Scenario.transitions
    /\ LET e == Scenario.experience
       IN  /\ DoStep(e.state, e.action, e.reward, e.next_state, e.done)
           /\ hist' = Append(hist, e)
    /\ UNCHANGED <<cfg, checkpoint, n_save, loopVars, last_act, n_act, pc>>

NextScenario == ScenarioStep

SpecScenario == InitScenario /\ [][NextScenario]_vars

\* C2 as stated: after the 50 transitions the memory holds 50 and learn has
\* run floor(50/4) = 12 times.
C2_TwelveLearns ==
    n_step = Scenario.transitions => Len(memory) = 50 /\ n_learn = 12

\* C2 amended: after the 50 transitions the memory holds 50 and learn has
\* run 10 times: at every fourth step from the 12th on, the wraps at steps 4
\* and 8 finding no more than batch_size = 8 transitions in the memory.
C2_TenLearns ==
    /\ n_learn = (IF n_step > 8 THEN (n_step \div 4) - 2 ELSE 0)
    /\ n_step = Scenario.transitions => Len(memory) = 50 /\ n_learn = 10

C2_Witness ==
    n_step = Scenario.transitions /\ Len(hist) = 50 /\ n_sample = 10

----------------------------------------------------------------------------
(* SpecLearn: learn and soft_update driven directly, for every gamma and   *)
(* tau, on networks whose local and target parameters differ.              *)

LearnConfigs ==
    {Config(2, 2, 2, 1, 1, g, tau, lr) :
        g \in 0..GammaDen, tau \in 0..TauDen, lr \in {0, 1}}

\* initial parameters of the local and of the target network
LocalParams(c) ==
    {ZeroParams(c),
     [s \in States(c) |-> [a \in Actions(c) |-> IF s = a THEN 1 ELSE -1]]}
TargetParams(c) ==
    {[s \in States(c) |-> [a \in Actions(c) |-> IF s = 0 THEN -1 ELSE a]]}

\* the batches handed to learn: dones are numbers, as sample() makes them
LearnBatches ==
    LET term(r) == Experience(0, 0, r, 1, 1)
        cont(r) == Experience(1, 1, r, 0, 0)
    IN  {<<term(r)>> : r \in Rewards} \cup {<<term(1), cont(0)>>, <<cont(1), term(0)>>}

InitLearn ==
    \E c \in LearnConfigs : \E l \in LocalParams(c), tg \in TargetParams(c) :
        InitAgent(c, l, tg)

\* learn(experiences, self.gamma)
LearnCall ==
    /\ pc = "idle"
    /\ n_soft < MaxCalls
    /\ \E batch \in LearnBatches : DoLearn(batch, cfg.gamma)
    /\ UNCHANGED <<cfg, memory, t_step, checkpoint, hist, n_sample, n_step, n_save,
                   loopVars, last_act, n_act, pc>>

\* soft_update(self.qnetwork_local, self.qnetwork_target, tau)
SoftUpdateCall ==
    /\ pc = "idle"
    /\ n_soft < MaxCalls
    /\ \E tau \in 0..TauDen : DoSoftUpdate(qnetwork_local, qnetwork_target, tau)
    /\ UNCHANGED <<cfg, memory, t_step, qnetwork_local, optimizer, checkpoint, hist,
                   n_sample, n_learn, n_step, n_save, loopVars, last_act,
                   n_act, last_learn, pc>>

NextLearn == LearnCall \/ SoftUpdateCall

SpecLearn == InitLearn /\ [][NextLearn]_vars

\* C4: in learn, the TD target of a transition with done = true is its
\* reward, whatever the target network gives for next_state and whatever
\* gamma is; with done = false it is reward + gamma * max_a target(next_state, a).
\* (Q_targets are in units of 1/GammaDen.)
C4_TDTarget ==
    last_learn.call = "learn" =>
        \A i \in DOMAIN last_learn.experiences :
            LET e == last_learn.experiences[i]
                y == last_learn.Q_targets[i]
                q == last_learn.target[e.next_state]
            IN  /\ e.done = 1 => y = GammaDen * e.reward
                /\ e.done = 0 =>
                      \E a \in DOMAIN q :
                          /\ \A b \in DOMAIN q : q[b] <= q[a]
                          /\ y = GammaDen * e.reward + last_learn.gamma * q[a]

\* a batch with a terminal and a non-terminal transition, gamma > 0, and a
\* target network whose value for the terminal one's next_state is not 0
C4_Witness ==
    /\ last_learn.call = "learn"
    /\ last_learn.gamma > 0
    /\ Len(last_learn.experiences) = 2
    /\ \E i, j \in 1..2 :
          /\ last_learn.experiences[i].done = 1
          /\ last_learn.experiences[j].done = 0
          /\ MaxQ(last_learn.target[last_learn.experiences[i].next_state]) # 0
          /\ MaxQ(last_learn.target[last_learn.experiences[j].next_state]) # 0

\* C5: soft_update sets every target parameter to tau*local + (1-tau)*target
\* (to the rounding of the arithmetic) and leaves local as it is; with
\* tau = 0 the target is unchanged, each time it is applied, and with
\* tau = 1 the target becomes equal to local, parameter by parameter.
C5_SoftUpdate ==
    [][n_soft' = n_soft + 1 =>
        LET tau == last_soft'.tau
        IN  /\ n_learn' = n_learn => qnetwork_local' = qnetwork_local
            /\ last_soft'.local_in = qnetwork_local'
            /\ last_soft'.target_in = qnetwork_target
            /\ \A s \in States(cfg), a \in Actions(cfg) :
                  LET exact == tau * qnetwork_local'[s][a]
                                 + (TauDen - tau) * qnetwork_target[s][a]
                      d == TauDen * qnetwork_target'[s][a] - exact
                  IN  -TauDen <= 2 * d /\ 2 * d <= TauDen
            /\ tau = 0 => qnetwork_target' = qnetwork_target
            /\ tau = TauDen => qnetwork_target' = qnetwork_local'
    ]_vars

\* learn ran with self.tau = 0 and left a target that differs from local;
\* then soft_update ran with tau = 1 on them
C5_Witness ==
    /\ cfg.tau = 0 /\ n_learn = 1 /\ n_soft = 2
    /\ last_soft.call = "soft_update"
    /\ last_soft.tau = TauDen
    /\ last_soft.target_in # last_soft.local_in
    /\ qnetwork_target = qnetwork_local

----------------------------------------------------------------------------
(* SpecAct: act driven directly, for every local network of two            *)
(* observations and two actions, every epsilon and every draw.             *)

ActConfig == Config(2, 2, 1, 1, 1, GammaDen, 1, 1)

InitAct == \E l \in ParamSpace(ActConfig) : InitAgent(ActConfig, l, ZeroParams(ActConfig))

\* act(state, eps)
ActCall ==
    /\ pc = "idle"
    /\ n_act < MaxCalls
    /\ \E s \in States(cfg), e \in 0..EpsDen, draw \in Draws, a \in Actions(cfg) :
          DoAct(s, e, draw, a)
    /\ n_act' = n_act + 1
    /\ UNCHANGED <<agentVars, hist, n_sample, n_learn, n_soft, n_step, n_save, loopVars,
                   last_learn, last_soft, pc>>

NextAct == ActCall

SpecAct == InitAct /\ [][NextAct]_vars

\* C6: act(state, eps = 0) is greedy whatever random.random() returns, 0.0
\* included: it takes the argmax branch and returns the lowest index of the
\* largest local action value.
C6_GreedyAtZero ==
    (last_act.call = "act" /\ last_act.eps = 0) =>
        /\ last_act.branch = "greedy"
        /\ last_act.action = ArgMax(last_act.q)

----------------------------------------------------------------------------
(* Agent.save and Agent.train.                                             *)

\* save(): the local network's parameters overwrite the checkpoint file
DoSave ==
    /\ checkpoint' = <<qnetwork_local>>
    /\ n_save' = n_save + 1

\* scores_window.append(score) on deque(maxlen=100)
WindowAppend(w, x) == LastN(Append(w, x), WindowLen)

\* np.mean(scores_window), kept exact as <<sum, count>>
Mean(w) == <<SumSeq(w), Len(w)>>

\* line 167: moving_avg >= 13.0
Solved(avg) == avg[1] >= SolvedScore * avg[2]

\* a slip in line 163: the floor eps_end left out
DecayEpsNoFloor(e) == RoundDiv(args.eps_decay * e, DecayDen)

\* line 163: max(eps_end, eps_decay*eps), eps_decay in units of 1/DecayDen
DecayEps(e) == Max2(args.eps_end, RoundDiv(args.eps_decay * e, DecayDen))

\* the rewards the environment pays in train: the solved score in one step,
\* or nothing
TrainRewards == {0, SolvedScore}

\* train(env, n_episodes, max_t, eps_start, eps_end, eps_decay), lines 138-143
TrainStart(n_episodes, max_t, eps_start, eps_end, eps_decay) ==
    /\ pc = "idle"
    /\ args' = [call |-> "train", n_episodes |-> n_episodes, max_t |-> max_t,
                eps_start |-> eps_start, eps_end |-> eps_end,
                eps_decay |-> eps_decay]
    /\ scores' = <<>> /\ moving_avgs' = <<>> /\ scores_window' = <<>>
    /\ eps' = eps_start
    /\ eps_hist' = <<eps_start>>
    /\ i_episode' = 0
    /\ n_interact' = 0
    /\ pc' = "train_episode"
    /\ UNCHANGED <<agentVars, countVars, lastVars, t, state, score, avg_scores, entry>>

\* lines 144-147: the head of the episode loop; the environment's reset
\* gives the first observation
TrainEpisode ==
    /\ pc = "train_episode"
    /\ \/ /\ i_episode < args.n_episodes
          /\ i_episode' = i_episode + 1
          /\ \E s \in States(cfg) : state' = s
          /\ score' = 0
          /\ t' = 0
          /\ pc' = IF args.max_t > 0 THEN "train_step" ELSE "train_episode_end"
       \/ /\ i_episode >= args.n_episodes
          /\ pc' = "train_done"
          /\ UNCHANGED <<i_episode, state, score, t>>
    /\ UNCHANGED <<agentVars, countVars, lastVars, n_interact, args, eps, eps_hist,
                   scores, scores_window, moving_avgs, avg_scores, entry>>

\* lines 148-158: one pass of the step loop: act, env.step, self.step
TrainInteraction ==
    /\ pc = "train_step"
    /\ \E draw \in Draws, a \in Actions(cfg), ns \in States(cfg),
          r \in TrainRewards, d \in BOOLEAN :
          /\ DoAct(state, eps, draw, a)
          /\ DoStep(state, a, r, ns, d)
          /\ state' = ns
          /\ score' = score + r
          /\ t' = t + 1
          /\ pc' = IF d \/ t + 1 >= args.max_t THEN "train_episode_end"
                   ELSE "train_step"
    /\ n_interact' = n_interact + 1
    /\ UNCHANGED <<cfg, checkpoint, hist, n_save, n_act, args, i_episode, eps,
                   eps_hist, scores, scores_window, moving_avgs, avg_scores, entry>>

\* lines 159-170: the episode's bookkeeping, the decay of epsilon and the
\* solved test with its save and break
TrainEpisodeEnd ==
    /\ pc = "train_episode_end"
    /\ scores_window' = WindowAppend(scores_window, score)
    /\ scores' = Append(scores, score)
    /\ moving_avgs' = Append(moving_avgs, Mean(scores_window'))
    /\ eps' = DecayEps(eps)
    /\ eps_hist' = Append(eps_hist, eps')
    /\ IF Solved(Mean(scores_window'))
       THEN /\ DoSave
            /\ pc' = "train_done"
       ELSE /\ pc' = "train_episode"
            /\ UNCHANGED <<checkpoint, n_save>>
    /\ UNCHANGED <<cfg, memory, t_step, qnetwork_local, qnetwork_target, optimizer,
                   hist, n_sample, n_learn, n_soft, n_step, n_act, lastVars,
                   n_interact, args, i_episode, t, state, score, avg_scores, entry>>

----------------------------------------------------------------------------
(* SpecTrain: one call of train on a fresh agent, for the arguments of     *)
(* TrainArgs and every behaviour of the environment.                       *)

TrainConfig == Config(1, 1, 2, 1, 2, GammaDen, 1, 1)

\* <<eps_start, eps_end, eps_decay>> as the caller may give them: decays of
\* 1/DecayDen and 1 from a start at or above the floor, and then a start
\* below the floor, a decay above 1 and a negative start
EpsArgs ==
    {<<EpsDen, 2, 1>>, <<EpsDen, 0, 1>>, <<2, 2, DecayDen>>, <<EpsDen, 1, DecayDen>>,
     <<1, 2, 1>>, <<1, 0, DecayDen + 1>>, <<-2, -3, 1>>}

InitTrain == InitAgent(TrainConfig, ZeroParams(TrainConfig), ZeroParams(TrainConfig))

TrainCall ==
    \E n \in {1, MaxEpisodes}, e \in EpsArgs : TrainStart(n, MaxT, e[1], e[2], e[3])

NextTrain == TrainCall \/ TrainEpisode \/ TrainInteraction \/ TrainEpisodeEnd

SpecTrain == InitTrain /\ [][NextTrain]_vars

\* C7 as stated: epsilon is updated once per completed episode as
\* max(eps_end, eps_decay * epsilon), and over a run its values never
\* increase and never fall below eps_end, whatever eps_start, eps_end and
\* eps_decay the caller gives.
C7_EpsScheduleAllArgs ==
    args.call = "train" =>
        /\ Len(eps_hist) = Len(scores) + 1
        /\ \A k \in 2..Len(eps_hist) :
              /\ eps_hist[k] = Max2(args.eps_end,
                                    RoundDiv(args.eps_decay * eps_hist[k - 1], DecayDen))
              /\ eps_hist[k] <= eps_hist[k - 1]
        /\ \A k \in 1..Len(eps_hist) : eps_hist[k] >= args.eps_end

\* the arguments for which the schedule is a decay from above the floor
EpsArgsDecaying ==
    /\ 0 <= args.eps_decay /\ args.eps_decay <= DecayDen
    /\ 0 <= args.eps_start /\ args.eps_end <= args.eps_start

\* C7 amended: epsilon starts at eps_start and is updated once per
\* completed episode as max(eps_end, eps_decay * epsilon); when
\* 0 <= eps_decay <= 1, eps_start >= 0 and eps_end <= eps_start, its values
\* over a run never increase and never fall below eps_end.
C7_EpsSchedule ==
    args.call = "train" =>
        /\ Len(eps_hist) = Len(scores) + 1
        /\ eps_hist[1] = args.eps_start
        /\ eps = eps_hist[Len(eps_hist)]
        /\ \A k \in 2..Len(eps_hist) :
              eps_hist[k] = Max2(args.eps_end,
                                 RoundDiv(args.eps_decay * eps_hist[k - 1], DecayDen))
        /\ EpsArgsDecaying =>
              /\ \A k \in 2..Len(eps_hist) : eps_hist[k] <= eps_hist[k - 1]
              /\ \A k \in 1..Len(eps_hist) : eps_hist[k] >= args.eps_end

\* three episodes done: epsilon decayed, reached the floor and stayed on it
C7_Witness ==
    /\ args.call = "train" /\ EpsArgsDecaying
    /\ Len(scores) = 3 /\ Len(eps_hist) = 4
    /\ eps_hist[2] < eps_hist[1]
    /\ eps_hist[2] = args.eps_end /\ eps_hist[4] = args.eps_end
    /\ RoundDiv(args.eps_decay * eps_hist[2], DecayDen) < args.eps_end

\* train stops at the first episode whose window mean is >= 13.0, saves
\* once there and runs no further episode
TrainStopsAtFirstSolved ==
    args.call = "train" =>
        /\ n_save <= 1
        /\ n_save = 1 <=> (moving_avgs # <<>> /\ Solved(moving_avgs[Len(moving_avgs)]))
        /\ \A k \in 1..(Len(moving_avgs) - 1) : ~Solved(moving_avgs[k])
        /\ n_save = 1 =>
              /\ pc = "train_done"
              /\ Len(scores) = i_episode
              /\ checkpoint = <<qnetwork_local>>

\* C8: train stops exactly at the first episode whose mean over the last
\* 100 episode scores is >= 13.0, saving once and running no further
\* episode; i_episode - 100 counts the episodes before that window of 100,
\* so the stop does not happen before 100 episodes have been scored.
C8_StopsOnFullWindow ==
    /\ TrainStopsAtFirstSolved
    /\ (args.call = "train" /\ n_save = 1) =>
          /\ i_episode - WindowLen >= 0
          /\ Len(scores_window) = WindowLen

\* train never interacts more than n_episodes * max_t times
TrainBounded ==
    args.call = "train" => n_interact <= args.n_episodes * args.max_t

----------------------------------------------------------------------------
(* Agent.test.  Its counter t (lines 181, 191) is written and never read,  *)
(* and is left out.                                                        *)

\* what learning reads and writes: the memory, the step counter, the two
\* networks, the optimizer, the checkpoint and the calls made so far
LearningState ==
    [memory |-> memory, t_step |-> t_step, qnetwork_local |-> qnetwork_local,
     qnetwork_target |-> qnetwork_target, optimizer |-> optimizer,
     checkpoint |-> checkpoint, n_step |-> n_step, n_sample |-> n_sample,
     n_learn |-> n_learn, n_soft |-> n_soft, n_save |-> n_save]

\* the rewards the environment pays in test
TestRewards == {0, 1}

\* line 183: act(state, eps=0)
TestEps == 0

\* a slip in lines 183-189: self.step(...) carried over from train's loop
TestAgentEffectStep(s, a, r, ns, d) == DoStep(s, a, r, ns, d)

\* lines 183-189: test hands the transition to nobody
TestAgentEffect(s, a, r, ns, d) ==
    UNCHANGED <<memory, t_step, n_step, n_sample, n_learn, n_soft, qnetwork_local,
                qnetwork_target, optimizer, last_learn, last_soft>>

\* test(env, num_episodes), lines 174-176
TestStart(num_episodes) ==
    /\ pc = "idle"
    /\ args' = [call |-> "test", num_episodes |-> num_episodes]
    /\ scores' = <<>> /\ avg_scores' = <<>>
    /\ i_episode' = 0
    /\ entry' = LearningState
    /\ pc' = "test_episode"
    /\ UNCHANGED <<agentVars, countVars, lastVars, n_interact, t, eps, eps_hist,
                   state, score, scores_window, moving_avgs>>

\* lines 177-180: the head of the episode loop
TestEpisode ==
    /\ pc = "test_episode"
    /\ \/ /\ i_episode < args.num_episodes
          /\ i_episode' = i_episode + 1
          /\ \E s \in States(cfg) : state' = s
          /\ score' = 0
          /\ pc' = "test_step"
       \/ /\ i_episode >= args.num_episodes
          /\ pc' = "test_done"
          /\ UNCHANGED <<i_episode, state, score>>
    /\ UNCHANGED <<agentVars, countVars, lastVars, n_interact, args, t, eps, eps_hist,
                   scores, scores_window, moving_avgs, avg_scores, entry>>

\* lines 182-196: one pass of the while True loop; only done leaves it
TestInteraction ==
    /\ pc = "test_step"
    /\ \E draw \in Draws, a \in Actions(cfg), ns \in States(cfg),
          r \in TestRewards, d \in BOOLEAN :
          /\ score + r <= MaxTestScore
          /\ DoAct(state, TestEps, draw, a)
          /\ TestAgentEffect(state, a, r, ns, d)
          /\ score' = score + r
          /\ state' = ns
          /\ IF d
             THEN /\ scores' = Append(scores, score')
                  /\ avg_scores' = Append(avg_scores, Mean(scores'))
                  /\ pc' = "test_episode"
             ELSE UNCHANGED <<scores, avg_scores, pc>>
    /\ UNCHANGED <<cfg, checkpoint, hist, n_save, n_act, n_interact, args, i_episode,
                   t, eps, eps_hist, scores_window, moving_avgs, entry>>

----------------------------------------------------------------------------
(* SpecTest: an agent that went through some step calls, and learned in   *)
(* them, is tested, for every behaviour of the environment.  The program   *)
(* runs on its own: a step that can be taken is taken.                     *)

TestConfig == Config(2, 2, 2, 1, 2, GammaDen, 1, 1)

InitTest == InitAgent(TestConfig, ZeroParams(TestConfig), ZeroParams(TestConfig))

\* step calls before the test
WarmStep ==
    /\ pc = "idle"
    /\ n_step < MaxEvery
    /\ \E a \in Actions(cfg) :
          /\ DoStep(0, a, 1, 0, FALSE)
          /\ hist' = Append(hist, Experience(0, a, 1, 0, FALSE))
    /\ UNCHANGED <<cfg, checkpoint, n_save, loopVars, last_act, n_act, pc>>

TestCall == \E n \in {1, MaxEpisodes} : TestStart(n)

NextTest == WarmStep \/ TestCall \/ TestEpisode \/ TestInteraction

SpecTest == InitTest /\ [][NextTest]_vars /\ WF_vars(NextTest)

\* C9: test does no learning.  While it runs and when it has returned,
\* every act call was made with eps = 0, step, sample, learn, soft_update
\* and save were not called, and the memory, t_step, the local and the
\* target parameters are as they were on entry; it returns num_episodes
\* scores and num_episodes running averages.
C9_TestFrame ==
    args.call = "test" =>
        /\ LearningState = entry
        /\ last_act.call = "act" => last_act.eps = 0
        /\ Len(scores) = Len(avg_scores)
        /\ \A k \in 1..Len(avg_scores) : avg_scores[k] = Mean(SubSeq(scores, 1, k))
        /\ pc = "test_done" =>
              /\ Len(scores) = args.num_episodes
              /\ Len(avg_scores) = args.num_episodes

\* test returned after three episodes, on an agent that had learned, and
\* whose memory and networks are not the initial ones
C9_Witness ==
    /\ args.call = "test" /\ pc = "test_done"
    /\ args.num_episodes = 3 /\ Len(scores) = 3
    /\ scores[1] # scores[2]
    /\ last_act.call = "act"
    /\ n_learn = 1 /\ Len(memory) = 2
    /\ qnetwork_local # ZeroParams(cfg)

\* C10, for test: whatever the environment does, test ends: a test that
\* has begun its step loop returns.
C10_TestTerminates == (pc = "test_step") ~> (pc = "test_done")

============================================================================
